---- MODULE Spec2Model ----
(***************************************************************************)
(* Model of src/streamlit.py: the air-quality dashboard script.  One run   *)
(* of the script loads the city CSV, forward-fills and filters it, loads   *)
(* the 24 yearly county CSVs and concatenates them, then renders the city  *)
(* tab and the county tab.  The pandas operations the script calls are     *)
(* operators on a small data-frame model: a frame is a record of column    *)
(* labels, index labels and rows of cells; a cell is missing, an integer,  *)
(* a float or a string; a string is a sequence of one-character strings.   *)
(***************************************************************************)
EXTENDS Integers, Sequences, FiniteSets, TLC

VARIABLES
    pc,                 \* position of the script run
    error,              \* the exception that ended the run, "none" if none
    failed_at,          \* the step that raised it, "none" if none
    cityCsv,            \* input: the city CSV behind the URL of line 10
    countyFiles,        \* input: year -> the county CSV behind the URL of line 54
    city_data,          \* module-level city_data (lines 87-88)
    county_data,        \* module-level county_data (line 89)
    city_options,       \* line 130
    selected_city_info, \* line 131
    cityView,           \* what the city tab rendered (lines 24-46)
    county_options,     \* line 173
    pollutant_options,  \* line 175
    selected_county,    \* line 174
    selected_pollutant, \* line 176
    countyView,         \* what the county tab rendered (lines 69-84)
    arg                 \* the argument of a function applied on its own

vars == << pc, error, failed_at, cityCsv, countyFiles, city_data, county_data, city_options,
           selected_city_info, cityView, county_options, pollutant_options,
           selected_county, selected_pollutant, countyView, arg >>

----------------------------------------------------------------------------
(* Bounds of the model.                                                    *)

MaxCityRows == 2
MaxFillRows == 3
MaxTextLen == 2
MaxExtraCols == 1
MaxDeviating == 2
MaxSubsetRows == 4

(* Program constants.                                                      *)

FirstYear == 2000
LastYear == 2023
MinPoints == 3
YearsStart == 4

YearRange == FirstYear..LastYear

----------------------------------------------------------------------------
(* Cells.  A number is m / 10^e with m not divisible by 10 unless e = 0.    *)

NA == [t |-> "na", m |-> 0, e |-> 0, s |-> <<>>]
IntCell(k) == [t |-> "int", m |-> k, e |-> 0, s |-> <<>>]
FloatCell(mm, ee) == [t |-> "float", m |-> mm, e |-> ee, s |-> <<>>]
Str(x) == [t |-> "str", m |-> 0, e |-> 0, s |-> x]

IsNA(c) == c.t = "na"
IsNumber(c) == c.t \in {"int", "float"}

Digit == {"0", "1", "2", "3", "4", "5", "6", "7", "8", "9"}
DigitChars == <<"0", "1", "2", "3", "4", "5", "6", "7", "8", "9">>
DigitVal(c) == (CHOOSE i \in 1..10 : DigitChars[i] = c) - 1

RECURSIVE Pow10(_)
Pow10(n) == IF n = 0 THEN 1 ELSE 10 * Pow10(n - 1)

RECURSIVE DigitsValue(_)
DigitsValue(s) ==
    IF s = <<>> THEN 0
    ELSE 10 * DigitsValue(SubSeq(s, 1, Len(s) - 1)) + DigitVal(s[Len(s)])

RECURSIVE Digits(_)
Digits(n) ==
    IF n < 10 THEN <<DigitChars[n + 1]>>
    ELSE Digits(n \div 10) \o <<DigitChars[(n % 10) + 1]>>

RECURSIVE PadDigits(_, _)
PadDigits(n, width) ==
    IF width = 0 THEN <<>>
    ELSE PadDigits(n \div 10, width - 1) \o <<DigitChars[(n % 10) + 1]>>

RECURSIVE Normalize(_, _)
Normalize(mm, ee) ==
    IF ee > 0 /\ mm % 10 = 0 THEN Normalize(mm \div 10, ee - 1)
    ELSE [m |-> mm, e |-> ee]

AllDigits(s) == \A i \in 1..Len(s) : s[i] \in Digit

(* The number a text denotes, as pandas' parser reads it: digits, at most  *)
(* one decimal point, at least one digit.                                  *)
ParseNumber(s) ==
    LET dots == {i \in 1..Len(s) : s[i] = "."}
        d == CHOOSE i \in dots : TRUE
        ip == IF dots = {} THEN s ELSE SubSeq(s, 1, d - 1)
        fp == IF dots = {} THEN <<>> ELSE SubSeq(s, d + 1, Len(s))
        bad == [ok |-> FALSE, isint |-> FALSE, m |-> 0, e |-> 0]
    IN  IF Cardinality(dots) > 1 THEN bad
        ELSE IF AllDigits(ip) /\ AllDigits(fp) /\ Len(ip) + Len(fp) > 0
             THEN LET n == Normalize(DigitsValue(ip \o fp), Len(fp))
                  IN  [ok |-> TRUE, isint |-> dots = {}, m |-> n.m, e |-> n.e]
             ELSE bad

(* str() of a cell value, as an f-string formats it.                       *)
FormatCell(c) ==
    CASE c.t = "na" -> <<"n", "a", "n">>
      [] c.t = "int" -> Digits(c.m)
      [] c.t = "float" ->
            Digits(c.m \div Pow10(c.e)) \o <<".">> \o
            (IF c.e = 0 THEN <<"0">> ELSE PadDigits(c.m % Pow10(c.e), c.e))
      [] OTHER -> c.s

(* The elementwise == of a pandas column against a scalar.                 *)
PdEq(c, x) ==
    CASE IsNA(c) \/ IsNA(x) -> FALSE
      [] IsNumber(c) /\ IsNumber(x) -> c.m = x.m /\ c.e = x.e
      [] c.t = "str" /\ x.t = "str" -> c.s = x.s
      [] OTHER -> FALSE

----------------------------------------------------------------------------
(* Data frames.                                                            *)

NoFrame == [columns |-> <<>>, dtypes |-> <<>>, index |-> <<>>, data |-> <<>>]

NRows(df) == Len(df.data)
HasCol(df, name) == \E j \in 1..Len(df.columns) : df.columns[j] = name
ColPos(df, name) == CHOOSE j \in 1..Len(df.columns) :
    /\ df.columns[j] = name
    /\ \A k \in 1..(j - 1) : df.columns[k] # name
Column(df, name) == [i \in 1..NRows(df) |-> df.data[i][ColPos(df, name)]]

RowsAt(df, keep) ==
    LET pos == SelectSeq([i \in 1..NRows(df) |-> i], LAMBDA i : i \in keep)
    IN  [columns |-> df.columns,
         dtypes |-> df.dtypes,
         index |-> [k \in 1..Len(pos) |-> df.index[pos[k]]],
         data |-> [k \in 1..Len(pos) |-> df.data[pos[k]]]]

SetColumn(df, name, col) ==
    [df EXCEPT !.data = [i \in 1..NRows(df) |->
        [df.data[i] EXCEPT ![ColPos(df, name)] = col[i]]]]

(* pd.read_csv's type inference for one column of raw texts: an empty     *)
(* field is missing; a column whose fields all parse as numbers is         *)
(* numeric (int64 only when every field is an integer and none is empty);  *)
(* any other column keeps its fields as strings.                           *)
ColumnDtype(texts) ==
    LET filled == {i \in 1..Len(texts) : texts[i] # <<>>}
    IN  IF texts = <<>> \/ \E i \in filled : ~ParseNumber(texts[i]).ok THEN "object"
        ELSE IF filled = 1..Len(texts) /\ \A i \in filled : ParseNumber(texts[i]).isint
             THEN "int64"
             ELSE "float64"

ReadCsvColumn(texts) ==
    LET dtype == ColumnDtype(texts)
        num(i) == ParseNumber(texts[i])
    IN  [i \in 1..Len(texts) |->
            IF texts[i] = <<>> THEN NA
            ELSE CASE dtype = "int64" -> IntCell(num(i).m)
                   [] dtype = "float64" -> FloatCell(num(i).m, num(i).e)
                   [] OTHER -> Str(texts[i])]

read_csv(csv) ==
    LET n == Len(csv.rows)
        texts(j) == [i \in 1..n |-> csv.rows[i][j]]
        col(j) == ReadCsvColumn(texts(j))
    IN  [columns |-> csv.columns,
         dtypes |-> [j \in 1..Len(csv.columns) |-> ColumnDtype(texts(j))],
         index |-> [i \in 1..n |-> i - 1],
         data |-> [i \in 1..n |-> [j \in 1..Len(csv.columns) |-> col(j)[i]]]]

----------------------------------------------------------------------------
(* The city pipeline.                                                      *)

(* Series.fillna(method='ffill'): a missing entry takes the value of the   *)
(* nearest preceding entry that is not missing, if there is one.           *)
FFillFirstAt(col, i) ==
    LET prev == {j \in 1..(i - 1) : ~IsNA(col[j])}
    IN  IF ~IsNA(col[i]) THEN col[i]
        ELSE IF prev = {} THEN NA
        ELSE col[CHOOSE j \in prev : \A k \in prev : j <= k]

RECURSIVE FFillAt(_, _)
FFillAt(col, i) ==
    IF ~IsNA(col[i]) THEN col[i]
    ELSE IF i = 1 THEN NA
    ELSE FFillAt(col, i - 1)

ffill(col) == [i \in 1..Len(col) |-> FFillAt(col, i)]

(* Lines 13-14: both group-key columns are filled forward.                 *)
FillKeys(city) ==
    LET c1 == SetColumn(city, "CBSA", ffill(Column(city, "CBSA")))
    IN  SetColumn(c1, "Core Based Statistical Area",
                  ffill(Column(c1, "Core Based Statistical Area")))

load_city_data(csv) == FillKeys(read_csv(csv))

(* DataFrame.dropna(subset=...): the rows with no missing cell among the   *)
(* subset's columns, their index labels kept.                              *)
dropna(df, subset) ==
    RowsAt(df, {i \in 1..NRows(df) :
                  \A j \in 1..Len(df.columns) :
                      df.columns[j] \in subset => ~IsNA(df.data[i][j])})

preprocess_city_data(city) == dropna(city, {"Pollutant", "Trend Statistic"})

(* str(year) for the years of the range, as the labels of the year columns *)
(* and the x values of the city chart.                                     *)
YearLabel(y) ==
    <<"2000", "2001", "2002", "2003", "2004", "2005", "2006", "2007",
      "2008", "2009", "2010", "2011", "2012", "2013", "2014", "2015",
      "2016", "2017", "2018", "2019", "2020", "2021", "2022", "2023">>[y - 1999]

years == [i \in 1..(LastYear - FirstYear + 1) |-> YearLabel(FirstYear + i - 1)]

None == [none |-> TRUE, v |-> <<>>]
Some(x) == [none |-> FALSE, v |-> x]

Separator == <<" ", "-", " ">>

CityLabel(cbsa, name) == FormatCell(cbsa) \o Separator \o FormatCell(name)

RECURSIVE Unique(_)
Unique(s) ==
    IF s = <<>> THEN <<>>
    ELSE LET front == Unique(SubSeq(s, 1, Len(s) - 1))
         IN  IF \E i \in 1..Len(front) : front[i] = s[Len(s)]
             THEN front ELSE Append(front, s[Len(s)])

(* The keys of city_options_dict, in insertion order.                      *)
CityOptions(city) ==
    Unique([i \in 1..NRows(city) |->
        CityLabel(Column(city, "CBSA")[i],
                  Column(city, "Core Based Statistical Area")[i])])

(* str.split(sep, 1): the text before the first occurrence of sep and the  *)
(* text after it.                                                          *)
SplitOnce(text, sep) ==
    LET hits == {i \in 1..(Len(text) - Len(sep) + 1) :
                    SubSeq(text, i, i + Len(sep) - 1) = sep}
        at == CHOOSE i \in hits : \A k \in hits : i <= k
    IN  IF hits = {} THEN [found |-> FALSE, head |-> text, tail |-> <<>>]
        ELSE [found |-> TRUE,
              head |-> SubSeq(text, 1, at - 1),
              tail |-> SubSeq(text, at + Len(sep), Len(text))]

(* pd.to_numeric(..., errors='coerce') on one value.                       *)
ToNumericCell(c) ==
    CASE c.t = "str" ->
            LET n == ParseNumber(c.s)
            IN  IF ~n.ok THEN NA
                ELSE IF n.isint THEN IntCell(n.m) ELSE FloatCell(n.m, n.e)
      [] OTHER -> c

(* The result is one numeric Series: int64 when every value is an integer, *)
(* float64 otherwise.                                                      *)
to_numeric(cells) ==
    LET conv == [i \in 1..Len(cells) |-> ToNumericCell(cells[i])]
    IN  IF \A i \in 1..Len(conv) : conv[i].t = "int" THEN conv
        ELSE [i \in 1..Len(conv) |->
                 IF IsNA(conv[i]) THEN NA ELSE FloatCell(conv[i].m, conv[i].e)]

fillna_skipped(cells, k) == cells

fillna(cells, k) ==
    [i \in 1..Len(cells) |-> IF IsNA(cells[i]) THEN FloatCell(k, 0) ELSE cells[i]]

(* Line 37: the row's values from position 4 on, coerced.                  *)
DataValues(cells) == fillna(to_numeric(SubSeq(cells, YearsStart + 1, Len(cells))), 0)

(* Lines 35-39 for one row: the call of plt.plot, which raises when x and  *)
(* y differ in length.                                                     *)
CityLine(columns, cells) ==
    LET y == DataValues(cells)
        at(name) == CHOOSE j \in 1..Len(columns) : columns[j] = name
    IN  [pollutant |-> cells[at("Pollutant")],
         statistic |-> cells[at("Trend Statistic")],
         x |-> years,
         y |-> y,
         raised |-> Len(y) # Len(years)]

plot_city_pollutants(city, city_info) ==
    IF city_info.none
    THEN [error |-> "AttributeError", table |-> NoFrame, lines |-> <<>>, chart |-> FALSE]
    ELSE
    LET city_cbs_code == SplitOnce(city_info.v, Separator).head
        filtered == RowsAt(city, {i \in 1..NRows(city) :
                        PdEq(Column(city, "CBSA")[i], Str(city_cbs_code))})
        all == [k \in 1..NRows(filtered) |-> CityLine(filtered.columns, filtered.data[k])]
        bad == {k \in 1..Len(all) : all[k].raised}
        stop == IF bad = {} THEN Len(all) + 1
                ELSE CHOOSE k \in bad : \A k2 \in bad : k <= k2
    IN  [error |-> IF bad = {} THEN "none" ELSE "ValueError",
         table |-> filtered,
         lines |-> SubSeq(all, 1, IF bad = {} THEN Len(all) ELSE stop),
         chart |-> bad = {}]

----------------------------------------------------------------------------
(* The county pipeline.                                                    *)

(* df.replace('.', pd.NA): every cell that is exactly the string "." is    *)
(* made missing; every other cell is left as it is.                        *)
ReplaceCellKept(c) == c

ReplaceCell(c) == IF c.t = "str" /\ c.s = <<".">> THEN NA ELSE c

replace_placeholder(df) ==
    [df EXCEPT !.data = [i \in 1..NRows(df) |->
        [j \in 1..Len(df.columns) |-> ReplaceCell(df.data[i][j])]]]

(* df['Year'] = year: a new last column, or the column of that name.       *)
assign_year(df, year) ==
    IF HasCol(df, "Year")
    THEN [SetColumn(df, "Year", [i \in 1..NRows(df) |-> IntCell(year)])
            EXCEPT !.dtypes[ColPos(df, "Year")] = "int64"]
    ELSE [columns |-> Append(df.columns, "Year"),
          dtypes |-> Append(df.dtypes, "int64"),
          index |-> df.index,
          data |-> [i \in 1..NRows(df) |-> Append(df.data[i], IntCell(year))]]

(* Lines 56-58 for one year's file.                                        *)
CleanYear(csv, year) == assign_year(replace_placeholder(read_csv(csv)), year)

RECURSIVE UnionColumns(_)
UnionColumns(frames) ==
    IF frames = <<>> THEN <<>>
    ELSE LET front == UnionColumns(SubSeq(frames, 1, Len(frames) - 1))
             last == frames[Len(frames)].columns
         IN  front \o SelectSeq(last, LAMBDA c : \A k \in 1..Len(front) : front[k] # c)

RECURSIVE ConcatRows(_)
ConcatRows(frames) ==
    IF frames = <<>> THEN <<>>
    ELSE ConcatRows(SubSeq(frames, 1, Len(frames) - 1)) \o
         [i \in 1..NRows(frames[Len(frames)]) |-> [f |-> Len(frames), r |-> i]]

(* pd.concat (line 61) finds the dtypes of its result join unit by join    *)
(* unit, in the way of the pandas releases that still accept               *)
(* fillna(method=...) at line 13.                                          *)
(*                                                                         *)
(* A frame keeps its columns of one dtype in one block; "V" stands for the *)
(* block of the columns it lacks.  The Year column of line 58 is an int64  *)
(* block, which concatenates to int64 whether or not it is joined to the   *)
(* other int64 columns.                                                    *)
BlockOf(df, c) == IF HasCol(df, c) THEN df.dtypes[ColPos(df, c)] ELSE "V"

(* The place of column c among the columns of its block.                   *)
BlockLoc(df, c) ==
    Cardinality({q \in 1..ColPos(df, c) : df.dtypes[q] = df.dtypes[ColPos(df, c)]})

(* For each of the first j columns of the result, the first column of the  *)
(* run of neighbours that df has in the same block.                        *)
RECURSIVE RunStarts(_, _, _)
RunStarts(df, cols, j) ==
    IF j = 0 THEN <<>>
    ELSE LET before == RunStarts(df, cols, j - 1)
         IN  Append(before, IF j > 1 /\ BlockOf(df, cols[j]) = BlockOf(df, cols[j - 1])
                            THEN before[j - 1] ELSE j)

(* The pieces df is cut into: a run stays one piece, but in a frame whose  *)
(* columns had to be reordered or completed a run whose places in the      *)
(* block are not evenly spaced falls apart into its columns.               *)
Pieces(df, cols) ==
    LET runs == RunStarts(df, cols, Len(cols))
        even(a) == \A i \in (a + 2)..Len(cols) :
                      runs[i] = a =>
                          BlockLoc(df, cols[i]) - BlockLoc(df, cols[i - 1])
                              = BlockLoc(df, cols[a + 1]) - BlockLoc(df, cols[a])
    IN  [j \in 1..Len(cols) |->
            IF df.columns = cols \/ ~HasCol(df, cols[j]) \/ even(runs[j])
            THEN runs[j] ELSE j]

(* For each of the first j columns of the result, the first column of its  *)
(* join unit: two neighbours are in one unit when every frame has them in  *)
(* one piece.                                                              *)
RECURSIVE UnitStarts(_, _, _)
UnitStarts(frames, cols, j) ==
    IF j = 0 THEN <<>>
    ELSE LET before == UnitStarts(frames, cols, j - 1)
         IN  Append(before, IF j > 1 /\ \A k \in 1..Len(frames) : Pieces(frames[k], cols)[j] # j
                            THEN before[j - 1] ELSE j)

(* The common dtype numpy finds for a set of dtypes.                       *)
CommonDtype(ds) ==
    IF "object" \in ds THEN "object"
    ELSE IF "float64" \in ds THEN "float64"
         ELSE "int64"

(* The dtype of the join unit of column j.  A frame's part of the unit is  *)
(* "na" if the frame lacks the columns, or if the part can hold missing    *)
(* values and holds nothing else (in particular if it has no rows).  The   *)
(* parts that are not "na" decide a first dtype (all the parts the frames  *)
(* have, when every part is "na"), which becomes float64 if it is int64    *)
(* and some frame lacks the columns.  If it is float64 or object, the "na" *)
(* parts are rebuilt in it; if it is int64, every part stays as it is.     *)
(* The dtype is the common dtype of what results, so that an int64 column  *)
(* joined with the object column of a file without rows is an object       *)
(* column of ints.                                                         *)
UnitDtype(frames, cols, start, j) ==
    LET all == 1..Len(frames)
        unit == {i \in 1..Len(cols) : start[i] = start[j]}
        block == [k \in all |-> BlockOf(frames[k], cols[j])]
        is_na == [k \in all |->
                    \/ block[k] = "V"
                    \/ /\ block[k] # "int64"
                       /\ \A i \in unit : \A r \in 1..NRows(frames[k]) :
                              IsNA(frames[k].data[r][ColPos(frames[k], cols[i])])]
        present == {k \in all : block[k] # "V"}
        valued == {k \in all : ~is_na[k]}
        deciding == IF valued = {} THEN present ELSE valued
        decided == CommonDtype({block[k] : k \in deciding})
        empty_dtype == IF decided = "int64" /\ present # all THEN "float64" ELSE decided
    IN  IF empty_dtype = "int64" THEN CommonDtype({block[k] : k \in all})
        ELSE CommonDtype({IF is_na[k] THEN empty_dtype ELSE block[k] : k \in all})

RECURSIVE ColumnDtypes(_, _, _, _)
ColumnDtypes(frames, cols, start, j) ==
    IF j = 0 THEN <<>>
    ELSE Append(ColumnDtypes(frames, cols, start, j - 1), UnitDtype(frames, cols, start, j))

(* pd.concat(frames, ignore_index=True): the union of the columns in order *)
(* of first appearance, the rows of each frame in order, a missing cell    *)
(* where a frame lacks a column, a fresh index, and each value cast to the *)
(* dtype of its column's join unit.                                        *)
concat(frames) ==
    LET cols == UnionColumns(frames)
        src == ConcatRows(frames)
        dtypes == ColumnDtypes(frames, cols, UnitStarts(frames, cols, Len(cols)), Len(cols))
        cell(p, j) ==
            IF HasCol(frames[p.f], cols[j])
            THEN LET v == frames[p.f].data[p.r][ColPos(frames[p.f], cols[j])]
                 IN  IF v.t = "int" /\ dtypes[j] = "float64" THEN FloatCell(v.m, 0) ELSE v
            ELSE NA
    IN  [columns |-> cols,
         dtypes |-> dtypes,
         index |-> [i \in 1..Len(src) |-> i - 1],
         data |-> [i \in 1..Len(src) |-> [j \in 1..Len(cols) |-> cell(src[i], j)]]]

(* Lines 49-62.  pd.read_csv raises for a year whose file is absent, and   *)
(* nothing in the loop catches it.                                         *)
load_and_clean_county_data(files) ==
    IF \E y \in YearRange : ~files[y].present
    THEN [error |-> "HTTPError", data |-> NoFrame]
    ELSE [error |-> "none",
          data |-> concat([i \in 1..(LastYear - FirstYear + 1) |->
                              CleanYear(files[FirstYear + i - 1], FirstYear + i - 1)])]

(* Series.count(): the entries that are not missing.                       *)
Count(col) == Cardinality({i \in 1..Len(col) : ~IsNA(col[i])})

has_enough_data(data, pollutant) == Count(Column(data, pollutant)) >= MinPoints

(* float() of a plotted value, as numpy applies it to a column of objects. *)
IsFloatable(c) == IsNumber(c) \/ (c.t = "str" /\ ParseNumber(c.s).ok)

(* Line 76: plt.plot chooses the y-axis converter from the first value.  A *)
(* str first makes the axis categorical, and a value that is not a str is  *)
(* then a TypeError; a number first leaves the values to be converted to   *)
(* floats, and a str that denotes no number is then a ValueError.          *)
PlotError(ys) ==
    IF ys = <<>> THEN "none"
    ELSE IF ys[1].t = "str"
         THEN IF \A i \in 1..Len(ys) : ys[i].t = "str" THEN "none" ELSE "TypeError"
         ELSE IF \A i \in 1..Len(ys) : IsFloatable(ys[i]) THEN "none" ELSE "ValueError"

(* Lines 69-84.  data[['Year', pollutant]].dropna() keeps the rows where   *)
(* neither cell is missing.  points are the pairs handed to plt.plot, and  *)
(* chart tells whether st.pyplot (line 82) was reached.                    *)
plot_county_pollutant(data, pollutant) ==
    IF pollutant.none \/ ~HasCol(data, pollutant.v)
    THEN [error |-> "KeyError", message |-> FALSE, chart |-> FALSE, points |-> <<>>]
    ELSE IF pollutant.v = "Year"
    THEN [error |-> "ValueError", message |-> FALSE, chart |-> FALSE, points |-> <<>>]
    ELSE
    LET sub == dropna(data, {"Year", pollutant.v})
        raised == PlotError(Column(sub, pollutant.v))
    IN  IF ~has_enough_data(sub, pollutant.v)
        THEN [error |-> "none", message |-> TRUE, chart |-> FALSE, points |-> <<>>]
        ELSE [error |-> raised, message |-> FALSE, chart |-> raised = "none",
              points |-> [i \in 1..NRows(sub) |->
                            [x |-> Column(sub, "Year")[i],
                             y |-> Column(sub, pollutant.v)[i]]]]

(* Line 173: Series.unique(), in order of first appearance.                *)
CountyOptions(county) == Unique(Column(county, "County"))

(* Line 175: columns[2:-1].                                                *)
PollutantOptions(county) == SubSeq(county.columns, 3, Len(county.columns) - 1)

(* Line 181: the rows of the selected county.                              *)
CountyRows(county, sel) ==
    RowsAt(county, {i \in 1..NRows(county) :
        ~sel.none /\ PdEq(Column(county, "County")[i], sel.v)})

----------------------------------------------------------------------------
(* Inputs: the CSV files behind the URLs.                                  *)

Absent == [present |-> FALSE, columns |-> <<>>, rows |-> <<>>]
Csv(cols, rws) == [present |-> TRUE, columns |-> cols, rows |-> rws]

RECURSIVE SeqsUpTo(_, _)
SeqsUpTo(S, n) ==
    IF n = 0 THEN {<<>>}
    ELSE LET shorter == SeqsUpTo(S, n - 1)
         IN  shorter \cup {Append(q, x) : q \in {r \in shorter : Len(r) = n - 1}, x \in S}

CityColumns ==
    <<"CBSA", "Core Based Statistical Area", "Pollutant", "Trend Statistic">> \o years

CbsaTexts == {<<>>, <<"1">>, <<"2">>, <<"A">>}
NameTexts == {<<>>, <<"N">>}
PollutantTexts == {<<>>, <<"O">>}
StatisticTexts == {<<>>, <<"M">>}

CityRow(cbsa, name, pollutant, statistic) ==
    <<cbsa, name, pollutant, statistic>> \o [i \in 1..Len(years) |-> <<"1">>]

(* The city file whose row i has the four leading fields fields[i].        *)
CityCsv(fields) ==
    Csv(CityColumns,
        [i \in 1..Len(fields) |->
            CityRow(fields[i][1], fields[i][2], fields[i][3], fields[i][4])])

FewCityCsvs ==
    { Absent,
      Csv(CityColumns, <<CityRow(<<"A">>, <<"N">>, <<"O">>, <<"M">>),
                         CityRow(<<>>, <<>>, <<"O">>, <<>>)>>) }

CountyColumns == <<"County Code", "County", "CO">>
Ada == <<"A", "d", "a">>
Bay == <<"B", "a", "y">>

FileContents ==
    { Csv(CountyColumns, << <<<<"1">>, Ada, <<"5">>>> >>),
      Csv(CountyColumns, << <<<<"1">>, Ada, <<".">>>>, <<<<"2">>, Bay, <<"7">>>> >>),
      Csv(<<"County Code", "County", "CO", "O3">>,
          << <<<<"1">>, Ada, <<"5">>, <<".">>>>,
             <<<<"2">>, <<>>, <<>>, <<"3", ".", "5">>>> >>),
      Csv(<<"County Code", "County", "O3">>, << <<<<"2">>, Bay, <<".", ".">>>> >>),
      Csv(CountyColumns, << <<<<"2">>, Bay, <<"5">>>> >>),
      Csv(CountyColumns, << <<<<"1">>, Ada, <<".">>>> >>),
      Csv(CountyColumns, << <<<<"2">>, <<>>, <<"3", ".", "5">>>> >>),
      Csv(CountyColumns, <<>>) }

(* The years whose file may deviate: the first, one inside, the last.      *)
DeviatingYears == {FirstYear, FirstYear + 6, LastYear}

RECURSIVE YearSetsUpTo(_)
YearSetsUpTo(n) ==
    IF n = 0 THEN {{}}
    ELSE LET smaller == YearSetsUpTo(n - 1)
         IN  smaller \cup {d \cup {y} : d \in smaller, y \in DeviatingYears}

Deviations ==
    {[kind |-> "absent", file |-> Absent], [kind |-> "absent_from", file |-> Absent]}
    \cup {[kind |-> "file", file |-> f] : f \in FileContents}

(* One file per year: the same content every year, but for the deviating   *)
(* years, whose file is absent, is the first of a run of absent files, or  *)
(* has a content of its own.                                               *)
CountyFiles(base, dev) ==
    [y \in YearRange |->
        IF \E d \in DOMAIN dev : dev[d].kind = "absent_from" /\ d <= y THEN Absent
        ELSE IF y \in DOMAIN dev THEN dev[y].file
        ELSE base]

DefaultCountyFiles ==
    [y \in YearRange |-> Csv(CountyColumns, << <<<<"1">>, Ada, <<"5">>>> >>)]

present == {y \in YearRange : countyFiles[y].present}

----------------------------------------------------------------------------
(* The run of the script (lines 86-181).                                   *)

NoCityView == [error |-> "none", table |-> NoFrame, lines |-> <<>>, chart |-> FALSE]
NoCountyView == [error |-> "none", message |-> FALSE, chart |-> FALSE, points |-> <<>>]

InitRun ==
    /\ pc = "start"
    /\ error = "none"
    /\ failed_at = "none"
    /\ city_data = NoFrame
    /\ county_data = NoFrame
    /\ city_options = <<>>
    /\ selected_city_info = None
    /\ cityView = NoCityView
    /\ county_options = <<>>
    /\ pollutant_options = <<>>
    /\ selected_county = None
    /\ selected_pollutant = None
    /\ countyView = NoCountyView

Init ==
    /\ InitRun
    /\ cityCsv \in FewCityCsvs
    /\ \E base \in FileContents, d \in YearSetsUpTo(MaxDeviating) :
          \E dev \in [d -> Deviations] : countyFiles = CountyFiles(base, dev)
    /\ arg = <<>>

InitCity ==
    /\ InitRun
    /\ \E n \in 0..MaxCityRows :
          \E fields \in [1..n -> CbsaTexts \X NameTexts \X PollutantTexts \X StatisticTexts] :
              cityCsv = CityCsv(fields)
    /\ countyFiles = DefaultCountyFiles
    /\ arg = <<>>

InitFill ==
    /\ InitRun
    /\ \E n \in 0..MaxFillRows :
          \E fields \in [1..n -> CbsaTexts \X NameTexts \X {<<"O">>} \X {<<"M">>}] :
              cityCsv = CityCsv(fields)
    /\ countyFiles = DefaultCountyFiles
    /\ arg = <<>>

(* st.selectbox: one of the options, None when there is none.              *)
Choices(options) ==
    IF options = <<>> THEN {None} ELSE {Some(options[i]) : i \in 1..Len(options)}

(* An exception nothing catches ends the run of the script.                *)
Outcome(step, err) ==
    /\ error' = err
    /\ failed_at' = IF err = "none" THEN "none" ELSE step

(* Line 87.                                                                *)
LoadCity ==
    /\ pc = "start"
    /\ IF cityCsv.present
       THEN /\ city_data' = load_city_data(cityCsv)
            /\ pc' = "city_loaded"
            /\ Outcome("load_city", "none")
       ELSE /\ city_data' = city_data
            /\ pc' = "crashed"
            /\ Outcome("load_city", "HTTPError")
    /\ UNCHANGED << cityCsv, countyFiles, county_data, city_options, selected_city_info,
                    cityView, county_options, pollutant_options, selected_county,
                    selected_pollutant, countyView, arg >>

(* Line 88.                                                                *)
PreprocessCity ==
    /\ pc = "city_loaded"
    /\ city_data' = preprocess_city_data(city_data)
    /\ pc' = "city_ready"
    /\ UNCHANGED << error, failed_at, cityCsv, countyFiles, county_data, city_options,
                    selected_city_info, cityView, county_options, pollutant_options,
                    selected_county, selected_pollutant, countyView, arg >>

(* Line 89.                                                                *)
LoadCounty ==
    /\ pc = "city_ready"
    /\ LET r == load_and_clean_county_data(countyFiles)
       IN  /\ county_data' = r.data
           /\ Outcome("load_county", r.error)
           /\ pc' = IF r.error = "none" THEN "tabs" ELSE "crashed"
    /\ UNCHANGED << cityCsv, countyFiles, city_data, city_options, selected_city_info,
                    cityView, county_options, pollutant_options, selected_county,
                    selected_pollutant, countyView, arg >>

(* Lines 94-136.                                                           *)
CityTab ==
    /\ pc = "tabs"
    /\ city_options' = CityOptions(city_data)
    /\ \E sel \in Choices(CityOptions(city_data)) :
          /\ selected_city_info' = sel
          /\ cityView' = plot_city_pollutants(city_data, sel)
    /\ Outcome("city_tab", cityView'.error)
    /\ pc' = IF cityView'.error = "none" THEN "city_done" ELSE "crashed"
    /\ UNCHANGED << cityCsv, countyFiles, city_data, county_data, county_options,
                    pollutant_options, selected_county, selected_pollutant,
                    countyView, arg >>

(* Lines 138-181.                                                          *)
CountyTab ==
    /\ pc = "city_done"
    /\ county_options' = CountyOptions(county_data)
    /\ pollutant_options' = PollutantOptions(county_data)
    /\ \E county \in Choices(CountyOptions(county_data)),
          pollutant \in Choices(PollutantOptions(county_data)) :
          /\ selected_county' = county
          /\ selected_pollutant' = pollutant
          /\ countyView' = plot_county_pollutant(CountyRows(county_data, county), pollutant)
    /\ Outcome("county_tab", countyView'.error)
    /\ pc' = IF countyView'.error = "none" THEN "done" ELSE "crashed"
    /\ UNCHANGED << cityCsv, countyFiles, city_data, county_data, city_options,
                    selected_city_info, cityView, arg >>

Next == LoadCity \/ PreprocessCity \/ LoadCounty \/ CityTab \/ CountyTab

(* Lines 87-88 alone: the cleaning of the city table.                      *)
NextClean == LoadCity \/ PreprocessCity

Spec == Init /\ [][Next]_vars
SpecCity == InitCity /\ [][Next]_vars
SpecFill == InitFill /\ [][NextClean]_vars

----------------------------------------------------------------------------
(* The body of the loop of plot_city_pollutants (lines 34-39) applied to   *)
(* one row of a city table, whatever the table's columns are.              *)

TextChars == {"0", "1", ".", "x"}
Texts == SeqsUpTo(TextChars, MaxTextLen) \ {<<>>}

OddCells == {NA, IntCell(3), FloatCell(25, 1)} \cup {Str(t) : t \in Texts}

ExtraLead(i) == <<"Number of Trends Sites", "Region", "State">>[i]
ExtraTrail(i) == <<"Notes", "Source", "Flag">>[i]

(* A row of a table with nl more columns before the year columns and nt    *)
(* more after them, whose year cells are 1.5 but for the one at position p. *)
SeriesRow(nl, nt, p, odd) ==
    [columns |->
        <<"CBSA", "Core Based Statistical Area", "Pollutant", "Trend Statistic">>
        \o [i \in 1..nl |-> ExtraLead(i)] \o years \o [i \in 1..nt |-> ExtraTrail(i)],
     cells |->
        <<Str(<<"A">>), Str(<<"N">>), Str(<<"O">>), Str(<<"M">>)>>
        \o [i \in 1..nl |-> IntCell(7)]
        \o [i \in 1..Len(years) |-> IF i = p THEN odd ELSE FloatCell(15, 1)]
        \o [i \in 1..nt |-> Str(<<"x">>)]]

InitSeries ==
    /\ InitRun
    /\ cityCsv = Absent
    /\ countyFiles = [y \in YearRange |-> Absent]
    /\ \E nl \in 0..MaxExtraCols, nt \in 0..MaxExtraCols, p \in 1..Len(years), odd \in OddCells :
          arg = SeriesRow(nl, nt, p, odd)

PlotRow ==
    /\ pc = "start"
    /\ LET line == CityLine(arg.columns, arg.cells)
       IN  /\ cityView' = [error |-> IF line.raised THEN "ValueError" ELSE "none",
                           table |-> NoFrame,
                           lines |-> <<line>>,
                           chart |-> ~line.raised]
           /\ Outcome("city_tab", cityView'.error)
    /\ pc' = "plotted"
    /\ UNCHANGED << cityCsv, countyFiles, city_data, county_data, city_options,
                    selected_city_info, county_options, pollutant_options,
                    selected_county, selected_pollutant, countyView, arg >>

SpecSeries == InitSeries /\ [][PlotRow]_vars

----------------------------------------------------------------------------
(* plot_county_pollutant (lines 69-84) applied to the rows of one county.  *)

SubsetCells == {NA, IntCell(5), FloatCell(35, 1), Str(<<"7">>), Str(<<"x">>)}

(* Row i of a subset is of year FirstYear + 2(i-1) or the year after.      *)
SubsetFrame(cells, gaps) ==
    [columns |-> <<"County Code", "County", "CO", "Year">>,
     dtypes |-> <<"int64", "object", "object", "int64">>,
     index |-> [i \in 1..Len(cells) |-> 2 * (i - 1) + gaps[i]],
     data |-> [i \in 1..Len(cells) |->
                 <<IntCell(1), Str(Ada), cells[i],
                   IntCell(FirstYear + 2 * (i - 1) + gaps[i])>>]]

InitPlot ==
    /\ InitRun
    /\ cityCsv = Absent
    /\ countyFiles = [y \in YearRange |-> Absent]
    /\ \E n \in 0..MaxSubsetRows :
          \E cells \in [1..n -> SubsetCells], gaps \in [1..n -> {0, 1}] :
              arg = [data |-> SubsetFrame(cells, gaps), pollutant |-> Some("CO")]

PlotSubset ==
    /\ pc = "start"
    /\ countyView' = plot_county_pollutant(arg.data, arg.pollutant)
    /\ Outcome("county_tab", countyView'.error)
    /\ pc' = "plotted"
    /\ UNCHANGED << cityCsv, countyFiles, city_data, county_data, city_options,
                    selected_city_info, cityView, county_options, pollutant_options,
                    selected_county, selected_pollutant, arg >>

SpecPlot == InitPlot /\ [][PlotSubset]_vars

----------------------------------------------------------------------------
(* Properties.                                                             *)

Range(q) == {q[i] : i \in 1..Len(q)}
Same(a, b) == (IsNA(a) /\ IsNA(b)) \/ PdEq(a, b)
Placeholder == Str(<<".">>)

CityReady ==
    \/ pc \in {"city_ready", "tabs", "city_done", "done"}
    \/ failed_at \in {"load_county", "city_tab", "county_tab"}
CountyLoadTried ==
    \/ pc \in {"tabs", "city_done", "done"}
    \/ failed_at \in {"load_county", "city_tab", "county_tab"}
CountyLoaded == CountyLoadTried /\ failed_at # "load_county"
CityTabRan == pc \in {"city_done", "done"} \/ failed_at \in {"city_tab", "county_tab"}
CountyTabRan == pc = "done" \/ failed_at = "county_tab"

(* C1: whenever some yearly county file is present, the county load ends   *)
(* without error and returns the concatenation of exactly the present      *)
(* years' files, cleaned and stamped, in ascending order of year.          *)
C1_AbsentYearsSkipped ==
    (CountyLoadTried /\ present # {}) =>
        LET py == SelectSeq([i \in 1..(LastYear - FirstYear + 1) |-> FirstYear + i - 1],
                            LAMBDA y : y \in present)
        IN  /\ failed_at # "load_county"
            /\ county_data = concat([k \in 1..Len(py) |-> CleanYear(countyFiles[py[k]], py[k])])

(* C2: when the county load fails, the run does not crash and the city tab *)
(* (selector, filtered table, chart) is still rendered.                    *)
C2_CountyFailureKeepsCityTab ==
    (failed_at = "load_county") =>
        /\ pc # "crashed"
        /\ city_options = CityOptions(city_data)
        /\ cityView.chart

(* C3: the option selected in a selector is matched by the exact-match     *)
(* filter: the city rows that produced the selected label are in the       *)
(* filtered table, and the selected county selects at least one row.       *)
C3_OptionsAlwaysMatch ==
    /\ (CityTabRan /\ ~selected_city_info.none) =>
          \A i \in 1..NRows(city_data) :
              CityLabel(Column(city_data, "CBSA")[i],
                        Column(city_data, "Core Based Statistical Area")[i])
                  = selected_city_info.v
              => city_data.index[i] \in Range(cityView.table.index)
    /\ (CountyTabRan /\ ~selected_county.none) =>
          NRows(CountyRows(county_data, selected_county)) >= 1

(* C4: after load_city_data, in each group-key column a field that was     *)
(* empty in the file holds the value of the nearest preceding row whose    *)
(* field was not empty, or stays missing if there is none, and a field     *)
(* that was not empty holds its own value.                                 *)
C4_ForwardFill ==
    (pc = "city_loaded") =>
        \A key \in {"CBSA", "Core Based Statistical Area"} :
            LET j == ColPos(city_data, key)
                raw == Column(read_csv(cityCsv), key)
                got == Column(city_data, key)
                empty(i) == cityCsv.rows[i][j] = <<>>
            IN  \A i \in 1..Len(cityCsv.rows) :
                    LET prev == {k \in 1..(i - 1) : ~empty(k)}
                    IN  IF ~empty(i) THEN got[i] = raw[i] /\ ~IsNA(got[i])
                        ELSE IF prev = {} THEN IsNA(got[i])
                        ELSE got[i] = raw[CHOOSE k \in prev : \A k2 \in prev : k2 <= k]

(* C4 witness: a third row with an empty CBSA after two rows with          *)
(* different CBSAs has taken the second row's.                             *)
C4_Witness ==
    /\ pc = "city_loaded"
    /\ Len(cityCsv.rows) >= 3
    /\ cityCsv.rows[3][1] = <<>>
    /\ cityCsv.rows[2][1] # <<>>
    /\ cityCsv.rows[1][1] # <<>>
    /\ cityCsv.rows[1][1] # cityCsv.rows[2][1]
    /\ ~IsNA(city_data.data[3][1])
    /\ city_data.data[3][1] = city_data.data[2][1]

(* C5: plot_county_pollutant draws no chart and shows the message when     *)
(* fewer than 3 rows have a value for the pollutant, and otherwise draws a *)
(* chart whose points are exactly the (Year, value) pairs of the rows that *)
(* have one, in row order.                                                 *)
C5_Threshold ==
    (pc = "plotted" /\ arg.pollutant = Some("CO")) =>
        LET value == Column(arg.data, "CO")
            year == Column(arg.data, "Year")
            have == SelectSeq([i \in 1..NRows(arg.data) |-> i], LAMBDA i : ~IsNA(value[i]))
        IN  IF Len(have) < 3
            THEN countyView.message /\ ~countyView.chart /\ countyView.points = <<>>
            ELSE /\ countyView.chart
                 /\ ~countyView.message
                 /\ countyView.points =
                        [k \in 1..Len(have) |-> [x |-> year[have[k]], y |-> value[have[k]]]]

(* C6: every plotted city row's y-series has the length of the 24 years    *)
(* and its k-th value is the row's value in the k-th year's column.        *)
C6_SeriesAligned ==
    (pc = "plotted" /\ cityView.lines # <<>>) =>
        LET line == cityView.lines[1]
            at(label) == CHOOSE j \in 1..Len(arg.columns) : arg.columns[j] = label
        IN  /\ ~line.raised
            /\ Len(line.y) = Len(years)
            /\ \A k \in 1..Len(years) :
                   k <= Len(line.y) =>
                       PdEq(line.y[k], fillna(to_numeric(<<arg.cells[at(years[k])]>>), 0)[1])

(* C7: after the county load no pollutant cell holds ".": a cell that was  *)
(* "." in its file is missing, any other cell keeps its value, and the     *)
(* cells that were "." are neither counted towards the 3 points nor among  *)
(* the points handed to the plot.                                          *)
C7_PlaceholderMissing ==
    CountyLoaded =>
        LET yearPos == ColPos(county_data, "Year")
            countyPos == ColPos(county_data, "County")
            rowIds == [i \in 1..NRows(county_data) |-> i]
            at(y) == SelectSeq(rowIds, LAMBDA i : county_data.data[i][yearPos].m = y)
            counted(y) ==
                LET file == read_csv(countyFiles[y])
                    rows == at(y)
                IN  {r \in 1..NRows(file) :
                        /\ ~selected_county.none
                        /\ PdEq(county_data.data[rows[r]][countyPos], selected_county.v)
                        /\ HasCol(file, selected_pollutant.v)
                        /\ ~IsNA(file.data[r][ColPos(file, selected_pollutant.v)])
                        /\ file.data[r][ColPos(file, selected_pollutant.v)] # Placeholder}
            chosen == UNION {{<<y, r>> : r \in counted(y)} : y \in YearRange}
        IN  /\ \A y \in YearRange :
                LET file == read_csv(countyFiles[y])
                    rows == at(y)
                    pollutants == Range(file.columns) \ {"County Code", "County"}
                IN  /\ Len(rows) = NRows(file)
                    /\ \A r \in 1..NRows(file) : \A c \in pollutants :
                           LET cell == county_data.data[rows[r]][ColPos(county_data, c)]
                               raw == file.data[r][ColPos(file, c)]
                           IN  /\ cell # Placeholder
                               /\ raw = Placeholder => IsNA(cell)
                               /\ raw # Placeholder => Same(cell, raw)
            /\ (pc = "done" \/ (failed_at = "county_tab" /\ countyView.points # <<>>)) =>
                /\ \A k \in 1..Len(countyView.points) :
                       ~IsNA(countyView.points[k].y) /\ countyView.points[k].y # Placeholder
                /\ countyView.points # <<>> <=> Cardinality(chosen) >= 3
                /\ countyView.points # <<>> => Len(countyView.points) = Cardinality(chosen)

(* C7 witness: the selected county has, in some year's file, a "." for the *)
(* selected pollutant in a column that holds nothing but ".", and enough   *)
(* values in other years to be charted.                                    *)
C7_Witness ==
    /\ pc = "done"
    /\ countyView.chart
    /\ ~selected_county.none
    /\ \E i \in 1..NRows(county_data) :
          LET y == Column(county_data, "Year")[i].m
              f == read_csv(countyFiles[y])
              r == 1 + Cardinality({k \in 1..(i - 1) : Column(county_data, "Year")[k].m = y})
          IN  /\ PdEq(Column(county_data, "County")[i], selected_county.v)
              /\ HasCol(f, selected_pollutant.v)
              /\ f.data[r][ColPos(f, selected_pollutant.v)] = Placeholder
              /\ \A q \in 1..NRows(f) : f.data[q][ColPos(f, selected_pollutant.v)] = Placeholder
              /\ IsNA(county_data.data[i][ColPos(county_data, selected_pollutant.v)])

(* C8: the rows lacking a Pollutant or a Trend Statistic are dropped       *)
(* before the forward-fill: the cleaned city table is the forward-fill of  *)
(* the surviving rows, and no surviving row lacks either.                  *)
C8_DropBeforeFill ==
    CityReady =>
        /\ city_data = FillKeys(preprocess_city_data(read_csv(cityCsv)))
        /\ \A i \in 1..NRows(city_data) :
               /\ ~IsNA(Column(city_data, "Pollutant")[i])
               /\ ~IsNA(Column(city_data, "Trend Statistic")[i])

(* C9: every value extracted from a city row is a number: a numeric cell   *)
(* keeps its value, a text that parses as a number becomes that number,    *)
(* and a missing cell or a text that does not parse becomes 0.             *)
C9_CoercedToNumbers ==
    (pc = "plotted" /\ cityView.lines # <<>>) =>
        LET y == cityView.lines[1].y
            src == SubSeq(arg.cells, 5, Len(arg.cells))
            zero(c) == IsNumber(c) /\ c.m = 0
        IN  /\ Len(y) = Len(src)
            /\ \A k \in 1..Len(src) :
                /\ IsNumber(y[k])
                /\ IsNumber(src[k]) => PdEq(y[k], src[k])
                /\ IsNA(src[k]) => zero(y[k])
                /\ src[k].t = "str" =>
                       IF ParseNumber(src[k].s).ok
                       THEN y[k].m = ParseNumber(src[k].s).m /\ y[k].e = ParseNumber(src[k].s).e
                       ELSE zero(y[k])
                /\ src[k] = Str(<<"1", ".">>) => PdEq(y[k], IntCell(1))
                /\ src[k] = Str(<<".", "1">>) => PdEq(y[k], FloatCell(1, 1))
                /\ src[k] \in {Str(<<".">>), Str(<<"x">>), Str(<<"1", "x">>)} => zero(y[k])

(* C9 witness: a row with a text that is no number among its year cells    *)
(* has a 0 at that place.                                                  *)
C9_Witness ==
    /\ pc = "plotted"
    /\ cityView.lines # <<>>
    /\ \E k \in 1..Len(cityView.lines[1].y) :
          /\ arg.cells[4 + k] = Str(<<"x">>)
          /\ cityView.lines[1].y[k] = FloatCell(0, 0)

(* C10: the pollutant selector offers every column of the merged county    *)
(* table but 'County Code', 'County' and 'Year', and none of these three.  *)
C10_PollutantOptions ==
    CountyTabRan =>
        Range(pollutant_options) =
            Range(county_data.columns) \ {"County Code", "County", "Year"}

====
